---- MODULE Spec2Model ----
(***************************************************************************)
(* Model of FHoudiniEngineEditor (HoudiniEngineEditor.cpp): the module's   *)
(* startup/shutdown registrations against the host editor, the temporary   *)
(* cook folder clean-up loop, and the bake / cook / rebuild / pause        *)
(* command handlers.                                                       *)
(*                                                                         *)
(* Three specifications share the variables:                               *)
(*   SpecModule  the module lifecycle (StartupModule, ShutdownModule)      *)
(*   SpecClean   one invocation of CleanUpTempFolder over a temp folder    *)
(*   Spec        the level commands (bake, recook, rebuild, pause) and the *)
(*               asynchronous completion of cooks                          *)
(* Every command handler runs to completion on the editor's UI thread, so  *)
(* a handler is one action, except CleanUpTempFolder whose while loop is   *)
(* followed pass by pass through cleanPc.                                  *)
(***************************************************************************)
EXTENDS Integers, Sequences, FiniteSets, TLC

VARIABLES
    env,      \* host globals the module reads: GUnrealEd, GEditor, ...
    host,     \* the host editor's registries
    ed,       \* the fields of the FHoudiniEngineEditor instance
    phase,    \* "constructed", "started", "shutdown"
    down      \* which host modules were still loaded when ShutdownModule ran

VARIABLES
    pkgOf,              \* the package of every temp asset
    temp0,              \* the temp cook folder's assets when the command is issued
    temp,               \* the temp cook folder's assets now
    refs,               \* the references the engine reports into temp assets
    cleanPc,            \* position in CleanUpTempFolder
    DeletedCount,       \* CleanUpTempFolder's local of that name
    bDidDeleteAsset,    \* CleanUpTempFolder's local of that name
    pending,            \* entries of AssetDataList the for loop has not reached
    AssetDataToDelete,  \* CleanUpTempFolder's local of that name
    passes,             \* passes of the while loop started so far
    lastPass,           \* what the deletion calls of the latest pass did
    allSucceeded,       \* every DeleteAssets call so far deleted its whole list
    reported            \* the number in the final notification, -1 before it

VARIABLES
    status,                \* per actor: what it is and what component it has
    cooking,               \* per actor: its component is instantiating or cooking
    bEnableCookingGlobal,  \* FHoudiniEngine's global cooking flag
    flag0,                 \* the flag's value before any command
    pauseEven,             \* PauseAssetCooking has run an even number of times
    last                   \* the latest command: what it saw, called and reported

VARIABLES
    bEngineInitialized,    \* FHoudiniEngine::IsInitialized()
    bUtilsInitialized,     \* FHoudiniEngineUtils::IsInitialized()
    tool,                  \* the latest handler that reaches for the engine
    undo                   \* the latest call the undo system made

moduleVars == <<env, host, ed, phase, down>>

toolVars == <<bEngineInitialized, bUtilsInitialized, tool, undo>>

levelVars == <<status, cooking, bEnableCookingGlobal, flag0, pauseEven, last>>

cleanVars == <<pkgOf, temp0, temp, refs, cleanPc, DeletedCount, bDidDeleteAsset,
               pending, AssetDataToDelete, passes, lastPass, allSucceeded,
               reported>>

vars == <<env, host, ed, phase, down,
          pkgOf, temp0, temp, refs, cleanPc, DeletedCount, bDidDeleteAsset,
          pending, AssetDataToDelete, passes, lastPass, allSucceeded, reported,
          status, cooking, bEnableCookingGlobal, flag0, pauseEven, last,
          bEngineInitialized, bUtilsInitialized, tool, undo>>

(***************************************************************************)
(* CleanUpTempFolder                                                       *)
(***************************************************************************)

NumAssets == 4

MaxRefs == 2

Assets == 1 .. NumAssets

\* The referencer of an edge is the temp asset `from` itself (its Outer is
\* the asset's package), a subobject of it (its Outer is the asset), or an
\* object outside the temporary cook folder (from = 0).
ExtObject == 0

\* References from an object into itself are internal references, which
\* IsReferenced does not list among the ExternalReferences.  A subobject
\* differs from its asset as a referencer only where the asset shares its
\* package with another, so only there are both kinds of referencer drawn.
CandidateEdges(S, f) ==
    LET shared == { x \in S : \E z \in S \ {x} : f[z] = f[x] }
    IN  { e \in [from : S, via : {"asset"}, to : S] \cup
                [from : shared, via : {"sub"}, to : S] : e.from # e.to } \cup
        { [from |-> ExtObject, via |-> "ext", to |-> t] : t \in S }

RECURSIVE EdgeSets(_, _)
EdgeSets(E, k) ==
    IF k = 0
    THEN { {} }
    ELSE LET smaller == EdgeSets(E, k - 1)
         IN  smaller \cup { s \cup {e} : s \in smaller, e \in E }

\* A package usually holds one asset; the loop over AssetsInPackage allows
\* for more.  Assets are interchangeable, so the packages are taken to be
\* single assets, but for at most one package that holds two consecutive
\* assets.
PackageMaps ==
    { [a \in Assets |-> a] } \cup
    { [a \in Assets |-> IF a = b + 1 THEN b ELSE a] : b \in 1 .. NumAssets - 1 }

\* ExtRef.Referencer->GetOuter()
Outer(e) ==
    CASE e.via = "asset" -> <<"package", pkgOf[e.from]>>
      [] e.via = "sub"   -> <<"asset", e.from>>
      [] OTHER           -> <<"outside", 0>>

\* The loop over AssetDataToDelete: the referencer's Outer is the package or
\* the asset of an entry of the list.
OuterFound(e, list) ==
    \E d \in list :
        \/ <<"package", pkgOf[d]>> = Outer(e)
        \/ <<"asset", d>> = Outer(e)

\* GetAssetsByPackageName( CurrentPackage->GetFName(), AssetsInPackage )
AssetsInPackage(d) == { a \in temp : pkgOf[a] = pkgOf[d] }

\* ReferencesIncludingUndo.ExternalReferences of an asset
ExternalReferences(a) == { e \in refs : e.to = a }

\* bAssetDataSafeToDelete at the end of the body of the for loop over
\* AssetDataList, for the entry d and the list built so far.
AssetDataSafeToDelete(d, list) ==
    \A a \in AssetsInPackage(d) :
        \A e \in ExternalReferences(a) : OuterFound(e, list)

\* The references left once the assets in D are gone: a deleted asset
\* neither refers nor is referred to.
RefsWithout(D) == { e \in refs : e.from \notin D /\ e.to \notin D }

\* The loop can start at most one pass per asset and one more; the counter
\* is capped beyond that.
MaxPasses == NumAssets + 3

\* A loop that tests nothing: it goes on whether or not the pass deleted.
WhileConditionAlways == TRUE

\* while ( bDidDeleteAsset )
WhileCondition == bDidDeleteAsset

\* A pass that force deletes whatever DeleteAssets returned.
ForceDeleteAttemptedAlways(CurrentDeleted) == TRUE

\* if ( CurrentDeleted <= 0 ) after DeleteAssets: the force deletion is tried.
ForceDeleteAttempted(CurrentDeleted) == CurrentDeleted <= 0

NoPass ==
    [ selected |-> {}, normal |-> {}, forceTried |-> FALSE, forced |-> {},
      CurrentDeleted |-> 0 ]

CleanIdle ==
    /\ pkgOf = [a \in Assets |-> a]
    /\ temp0 = {}
    /\ temp = {}
    /\ refs = {}
    /\ cleanPc = "idle"
    /\ DeletedCount = 0
    /\ bDidDeleteAsset = FALSE
    /\ pending = {}
    /\ AssetDataToDelete = {}
    /\ passes = 0
    /\ lastPass = NoPass
    /\ allSucceeded = TRUE
    /\ reported = -1

\* Entry of CleanUpTempFolder, up to the while loop.
CleanUpTempFolder ==
    /\ cleanPc = "idle"
    /\ DeletedCount' = 0
    /\ bDidDeleteAsset' = TRUE
    /\ cleanPc' = "while"
    /\ UNCHANGED <<pkgOf, temp0, temp, refs, pending, AssetDataToDelete,
                   passes, lastPass, allSucceeded, reported>>
    /\ UNCHANGED moduleVars
    /\ UNCHANGED levelVars
    /\ UNCHANGED toolVars

\* while ( bDidDeleteAsset ): the head of a pass lists the folder's assets.
CleanUpWhile ==
    /\ cleanPc = "while"
    /\ IF WhileCondition
       THEN /\ passes < MaxPasses
            /\ bDidDeleteAsset' = FALSE
            /\ pending' = temp
            /\ AssetDataToDelete' = {}
            /\ passes' = passes + 1
            /\ lastPass' = NoPass
            /\ cleanPc' = "for"
       ELSE /\ cleanPc' = "notify"
            /\ UNCHANGED <<bDidDeleteAsset, pending, AssetDataToDelete, passes,
                           lastPass>>
    /\ UNCHANGED <<pkgOf, temp0, temp, refs, DeletedCount, allSucceeded,
                   reported>>
    /\ UNCHANGED moduleVars
    /\ UNCHANGED levelVars
    /\ UNCHANGED toolVars

\* One iteration of for ( FAssetData Data : AssetDataList ); the order in
\* which the asset registry lists the entries is the host's.
CleanUpFor ==
    /\ cleanPc = "for"
    /\ \E d \in pending :
         /\ pending' = pending \ {d}
         /\ AssetDataToDelete' =
                IF AssetDataSafeToDelete(d, AssetDataToDelete)
                THEN AssetDataToDelete \cup {d}
                ELSE AssetDataToDelete
    /\ UNCHANGED <<pkgOf, temp0, temp, refs, cleanPc, DeletedCount,
                   bDidDeleteAsset, passes, lastPass, allSucceeded, reported>>
    /\ UNCHANGED moduleVars
    /\ UNCHANGED levelVars
    /\ UNCHANGED toolVars

\* The rest of the pass: break on an empty list, else DeleteAssets, and
\* ForceDeleteObjects if DeleteAssets deleted nothing.  Either call deletes
\* some of what it is given and returns how many.
CleanUpDelete ==
    /\ cleanPc = "for"
    /\ pending = {}
    /\ IF Cardinality(AssetDataToDelete) <= 0
       THEN /\ cleanPc' = "notify"
            /\ lastPass' = NoPass
            /\ UNCHANGED <<temp, refs, DeletedCount, bDidDeleteAsset,
                           allSucceeded>>
       ELSE \E D \in SUBSET AssetDataToDelete :
            \E F \in SUBSET AssetDataToDelete :
              /\ ForceDeleteAttempted(Cardinality(D)) \/ F = {}
              /\ LET tried == ForceDeleteAttempted(Cardinality(D))
                     gone == IF tried THEN D \cup F ELSE D
                     CurrentDeleted ==
                         IF tried THEN Cardinality(F) ELSE Cardinality(D)
                 IN  /\ temp' = temp \ gone
                     /\ refs' = RefsWithout(gone)
                     /\ lastPass' =
                            [ selected |-> AssetDataToDelete, normal |-> D,
                              forceTried |-> tried,
                              forced |-> IF tried THEN F ELSE {},
                              CurrentDeleted |-> CurrentDeleted ]
                     /\ allSucceeded' =
                            (allSucceeded /\ D = AssetDataToDelete)
                     /\ IF CurrentDeleted > 0
                        THEN /\ DeletedCount' = DeletedCount + CurrentDeleted
                             /\ bDidDeleteAsset' = TRUE
                        ELSE UNCHANGED <<DeletedCount, bDidDeleteAsset>>
                     /\ cleanPc' = "while"
    /\ UNCHANGED <<pkgOf, temp0, pending, AssetDataToDelete, passes, reported>>
    /\ UNCHANGED moduleVars
    /\ UNCHANGED levelVars
    /\ UNCHANGED toolVars

\* The final "Deleted N temporary files." notification.
CleanUpNotify ==
    /\ cleanPc = "notify"
    /\ reported' = DeletedCount
    /\ cleanPc' = "done"
    /\ UNCHANGED <<pkgOf, temp0, temp, refs, DeletedCount, bDidDeleteAsset,
                   pending, AssetDataToDelete, passes, lastPass, allSucceeded>>
    /\ UNCHANGED moduleVars
    /\ UNCHANGED levelVars
    /\ UNCHANGED toolVars

(***************************************************************************)
(* Reaching for the Houdini engine                                         *)
(***************************************************************************)

\* A path is a string of UTF-16 code units; here of one unit, 'a' or U+4E2D.
Paths == { <<97>>, <<20013>> }

NoInput ==
    [ platform |-> FALSE, bSaved |-> FALSE, chosen |-> <<>>,
      temp |-> <<>>, exists |-> FALSE ]

\* What a handler is recorded with: whether FHoudiniEngine::IsInitialized()
\* held when it ran, whether it reached for the FHoudiniEngine singleton or
\* its session, whether the editor survived it, what it was given, and the
\* calls it made, in their order.
NoTool ==
    [ cmd |-> "none", initialized |-> TRUE, engine |-> FALSE,
      crashed |-> FALSE, input |-> NoInput, events |-> <<>> ]

\* The objects the undo system hands over: none, a Houdini asset
\* component, or an object of another class.
NumObjects == 2

nullptr == [ class |-> "nullptr", id |-> 0 ]

UndoObjects ==
    {nullptr} \cup [ class : {"UHoudiniAssetComponent", "AActor"},
                     id : 1 .. NumObjects ]

NoUndo ==
    [ call |-> "none", InContext |-> <<>>, PrimaryObject |-> nullptr,
      result |-> FALSE, bSuccess |-> FALSE, updated |-> nullptr ]

ToolsIdle ==
    /\ bEngineInitialized = TRUE
    /\ bUtilsInitialized = TRUE
    /\ tool = NoTool
    /\ undo = NoUndo

\* The editor is running: no handler has brought it down.
Running == ~tool.crashed

\* A handler is run from its menu entry or shortcut, through the command
\* list and its FCanExecuteAction, or from the console, directly.
TriggerPaths == {"menu", "console"}

CanOpenInHoudini == bEngineInitialized

CanSaveHIPFile == bEngineInitialized

CanPauseAssetCooking == bEngineInitialized

Triggered(trigger, CanExecute) == trigger = "menu" => CanExecute

\* FHoudiniEngine::Get().GetEnableCookingGlobal(): the flag of the engine;
\* without an engine, whatever the read through the missing instance gives.
GetEnableCookingGlobal ==
    IF bEngineInitialized THEN {bEnableCookingGlobal} ELSE BOOLEAN

\* A handler that reached for the engine, and how the editor took it.
EngineReached(cmd, crashed) ==
    [ NoTool EXCEPT !.cmd = cmd, !.initialized = bEngineInitialized,
                    !.engine = TRUE, !.crashed = crashed ]

\* The save dialog returns at most this many file names.
MaxFilenames == 2

SaveFilenameLists == UNION { [1 .. n -> Paths] : n \in 0 .. MaxFilenames }

\* std::string HIPPathConverted( HIPPath.begin(), HIPPath.end() ): every
\* code unit of the wide string is narrowed to a char.
NarrowPath(path) == [ i \in 1 .. Len(path) |-> path[i] % 256 ]

\* The UTF-8 bytes of one code unit of the Basic Multilingual Plane.
Utf8Unit(c) ==
    IF c < 128 THEN <<c>>
    ELSE IF c < 2048 THEN << 192 + (c \div 64), 128 + (c % 64) >>
    ELSE << 224 + (c \div 4096), 128 + ((c \div 64) % 64), 128 + (c % 64) >>

\* TCHAR_TO_UTF8
RECURSIVE Utf8(_)
Utf8(path) ==
    IF path = <<>> THEN <<>> ELSE Utf8Unit(Head(path)) \o Utf8(Tail(path))

Call(op, arg) == [ op |-> op, arg |-> arg ]

\* if ( DesktopPlatform && FHoudiniEngineUtils::IsInitialized() )
SaveHIPFileAsks(platform) == platform /\ bUtilsInitialized

\* if ( bSaved && SaveFilenames.Num() )
SaveHIPFileSaves(bSaved, SaveFilenames) == bSaved /\ Len(SaveFilenames) > 0

\* The calls of SaveHIPFile, in their order.
SaveHIPFileCalls(input) ==
    IF SaveHIPFileAsks(input.platform)
    THEN <<Call("SaveFileDialog", <<>>)>> \o
         ( IF SaveHIPFileSaves(input.bSaved, input.chosen)
           THEN << Call("Notification: Saving internal Houdini scene...", <<>>),
                   Call("FHoudiniApi::SaveHIPFile", NarrowPath(input.chosen[1])) >>
           ELSE <<>> )
    ELSE <<>>

\* The handler reached for the engine if it called through its session.
ReachedEngine(events) ==
    \E i \in 1 .. Len(events) : events[i].op = "FHoudiniApi::SaveHIPFile"

SaveHIPFile ==
    /\ Running
    /\ \E trigger \in TriggerPaths : Triggered(trigger, CanSaveHIPFile)
    /\ \E platform \in BOOLEAN :
       \E bSaved \in (IF SaveHIPFileAsks(platform) THEN BOOLEAN ELSE {FALSE}) :
       \E SaveFilenames \in
              (IF SaveHIPFileAsks(platform) THEN SaveFilenameLists ELSE {<<>>}) :
         LET input == [ NoInput EXCEPT !.platform = platform,
                                       !.bSaved = bSaved,
                                       !.chosen = SaveFilenames ]
             events == SaveHIPFileCalls(input)
         IN  tool' = [ cmd |-> "SaveHIPFile",
                       initialized |-> bEngineInitialized,
                       engine |-> ReachedEngine(events),
                       crashed |-> FALSE,
                       input |-> input,
                       events |-> events ]
    /\ UNCHANGED <<bEngineInitialized, bUtilsInitialized, undo>>
    /\ UNCHANGED levelVars
    /\ UNCHANGED moduleVars
    /\ UNCHANGED cleanVars

\* if ( !FHoudiniEngine::IsInitialized() ) return;
OpenInHoudiniProceeds == bEngineInitialized

\* A handler that launches Houdini whether or not the file was written.
OpenInHoudiniOpensAnyway(exists) == TRUE

\* if ( !FPaths::FileExists( UserTempPath ) ) return;
OpenInHoudiniOpens(exists) == exists

\* The calls of OpenInHoudini, in their order.
OpenInHoudiniCalls(input) ==
    IF OpenInHoudiniProceeds
    THEN <<Call("FHoudiniApi::SaveHIPFile", Utf8(input.temp))>> \o
         ( IF OpenInHoudiniOpens(input.exists)
           THEN << Call("Notification: Opening scene in Houdini...", <<>>),
                   Call("CreateProc", input.temp) >>
           ELSE <<>> )
    ELSE <<>>

OpenInHoudini ==
    /\ Running
    /\ \E trigger \in TriggerPaths : Triggered(trigger, CanOpenInHoudini)
    /\ \E UserTempPath \in (IF OpenInHoudiniProceeds THEN Paths ELSE {<<>>}) :
       \E exists \in (IF OpenInHoudiniProceeds THEN BOOLEAN ELSE {FALSE}) :
         LET input == [ NoInput EXCEPT !.temp = UserTempPath,
                                       !.exists = exists ]
             events == OpenInHoudiniCalls(input)
         IN  tool' = [ cmd |-> "OpenInHoudini",
                       initialized |-> bEngineInitialized,
                       engine |-> ReachedEngine(events),
                       crashed |-> FALSE,
                       input |-> input,
                       events |-> events ]
    /\ UNCHANGED <<bEngineInitialized, bUtilsInitialized, undo>>
    /\ UNCHANGED levelVars
    /\ UNCHANGED moduleVars
    /\ UNCHANGED cleanVars

(***************************************************************************)
(* The level commands: bake, recook, rebuild, pause                        *)
(***************************************************************************)

NumActors == 2

Actors == 1 .. NumActors

\* An actor is no Houdini asset actor ("other"), a Houdini asset actor whose
\* GetHoudiniAssetComponent() is null ("nocomp"), or one whose component
\* fails ("invalid") or passes ("valid") IsComponentValid(), or one whose
\* component object fails IsValidLowLevel() ("stale").
StatusValues == {"other", "nocomp", "stale", "invalid", "valid"}

NoCommand ==
    [ cmd |-> "none", sel |-> {}, valid |-> {}, cooking |-> {},
      calls |-> <<>>, count |-> -1 ]

LevelIdle ==
    /\ status = [a \in Actors |-> "other"]
    /\ cooking = [a \in Actors |-> FALSE]
    /\ bEnableCookingGlobal = TRUE
    /\ flag0 = TRUE
    /\ pauseEven = TRUE
    /\ last = NoCommand

\* A level state lv is [status |-> ..., cooking |-> ..., calls |-> ...,
\* count |-> ...]: the actors, and the calls and the counter of the handler
\* that is running.

\* Cast< AHoudiniAssetActor >
IsHoudiniAssetActor(lv, a) == lv.status[a] # "other"

\* The actor's UHoudiniAssetComponent exists.
HasComponent(lv, a) == lv.status[a] \in {"stale", "invalid", "valid"}

IsComponentValid(lv, a) == lv.status[a] = "valid"

IsInstantiatingOrCooking(lv, a) == lv.cooking[a]

IsValidLowLevel(lv, a) == lv.status[a] \in {"invalid", "valid"}

\* What a call is recorded with: the component and what held of it then.
CallOn(lv, a) ==
    [ comp |-> a, valid |-> IsComponentValid(lv, a),
      cooking |-> IsInstantiatingOrCooking(lv, a) ]

\* UHoudiniAssetComponent::StartTaskAssetCookingManual and
\* StartTaskAssetRebuildManual: the component is cooking (instantiating)
\* until the task completes.
StartTask(lv, a) ==
    [ lv EXCEPT !.cooking[a] = TRUE,
                !.calls = Append(@, CallOn(lv, a)) ]

\* FHoudiniEngineBakeUtils::ReplaceHoudiniActorWithBlueprint: on success the
\* Houdini asset actor is replaced by an actor of the baked blueprint.
ReplaceHoudiniActorWithBlueprint(lv, a, ok) ==
    LET called == [ lv EXCEPT !.calls = Append(@, CallOn(lv, a)) ]
    IN  IF ok
        THEN [ called EXCEPT !.status[a] = "other",
                             !.cooking[a] = FALSE,
                             !.count = @ + 1 ]
        ELSE called

\* UHoudiniAssetComponent::StartHoudiniTicking
StartHoudiniTicking(lv, a) ==
    [ lv EXCEPT !.calls = Append(@, CallOn(lv, a)) ]

\* BakeAllAssets without its checks of the component.
BakeAllAssetsBakesAny(lv, a) == HasComponent(lv, a)

\* The checks of BakeAllAssets before it bakes the component the iterator
\* is at: the component is valid and neither instantiating nor cooking.
BakeAllAssetsBakes(lv, a) ==
    /\ HasComponent(lv, a)
    /\ IsComponentValid(lv, a)
    /\ ~IsInstantiatingOrCooking(lv, a)

\* BakeSelection without its check that the component is idle.
BakeSelectionBakesCooking(lv, a) ==
    /\ IsHoudiniAssetActor(lv, a)
    /\ HasComponent(lv, a)
    /\ IsComponentValid(lv, a)

\* The checks of BakeSelection before it bakes the selected actor.
BakeSelectionBakes(lv, a) ==
    /\ IsHoudiniAssetActor(lv, a)
    /\ HasComponent(lv, a)
    /\ IsComponentValid(lv, a)
    /\ ~IsInstantiatingOrCooking(lv, a)

\* RecookAllAssets without its check of the component.
RecookAllAssetsStartsAny(lv, a) == HasComponent(lv, a)

\* The check of RecookAllAssets and of RebuildAllAssets.
RecookAllAssetsStarts(lv, a) ==
    HasComponent(lv, a) /\ IsComponentValid(lv, a)

RebuildAllAssetsStarts(lv, a) ==
    HasComponent(lv, a) /\ IsComponentValid(lv, a)

\* The checks of RecookSelection and of RebuildSelection.
RecookSelectionStarts(lv, a) ==
    /\ IsHoudiniAssetActor(lv, a)
    /\ HasComponent(lv, a)
    /\ IsComponentValid(lv, a)

RebuildSelectionStarts(lv, a) ==
    /\ IsHoudiniAssetActor(lv, a)
    /\ HasComponent(lv, a)
    /\ IsComponentValid(lv, a)

\* PauseAssetCooking without its IsValidLowLevel check.
PauseAssetCookingTicksAny(lv, a) == HasComponent(lv, a)

\* The check of PauseAssetCooking before it ticks a component.
PauseAssetCookingTicks(lv, a) ==
    HasComponent(lv, a) /\ IsValidLowLevel(lv, a)

\* TObjectIterator< UHoudiniAssetComponent >: the components in existence,
\* each once, here in the order of their actors.
RECURSIVE ObjectIterator(_, _)
ObjectIterator(lv, a) ==
    IF a > NumActors THEN <<>>
    ELSE IF HasComponent(lv, a)
         THEN <<a>> \o ObjectIterator(lv, a + 1)
         ELSE ObjectIterator(lv, a + 1)

\* GetWorldSelection( WorldSelection, true ): the selected actors that are
\* Houdini asset actors; nothing when there is no GEditor.
RECURSIVE SelectedFrom(_, _, _)
SelectedFrom(lv, sel, a) ==
    IF a > NumActors THEN <<>>
    ELSE IF a \in sel /\ IsHoudiniAssetActor(lv, a)
         THEN <<a>> \o SelectedFrom(lv, sel, a + 1)
         ELSE SelectedFrom(lv, sel, a + 1)

\* A selection query that returns every Houdini asset actor of the level.
GetWorldSelectionOfLevel(lv, sel, e) == SelectedFrom(lv, Actors, 1)

GetWorldSelection(lv, sel, e) ==
    IF e.GEditor THEN SelectedFrom(lv, sel, 1) ELSE <<>>

\* The loops of the handlers, over the iterator's or the selection's
\* sequence.  oks are the actors whose bake would succeed.
RECURSIVE BakeAllLoop(_, _, _)
BakeAllLoop(lv, seq, oks) ==
    IF seq = <<>> THEN lv
    ELSE LET a == Head(seq)
         IN  BakeAllLoop(
                 IF BakeAllAssetsBakes(lv, a)
                 THEN ReplaceHoudiniActorWithBlueprint(lv, a, a \in oks)
                 ELSE lv,
                 Tail(seq), oks)

RECURSIVE BakeSelectionLoop(_, _, _)
BakeSelectionLoop(lv, seq, oks) ==
    IF seq = <<>> THEN lv
    ELSE LET a == Head(seq)
         IN  BakeSelectionLoop(
                 IF BakeSelectionBakes(lv, a)
                 THEN ReplaceHoudiniActorWithBlueprint(lv, a, a \in oks)
                 ELSE lv,
                 Tail(seq), oks)

RECURSIVE RecookAllLoop(_, _)
RecookAllLoop(lv, seq) ==
    IF seq = <<>> THEN lv
    ELSE LET a == Head(seq)
         IN  RecookAllLoop(
                 IF RecookAllAssetsStarts(lv, a)
                 THEN [ StartTask(lv, a) EXCEPT !.count = @ + 1 ]
                 ELSE lv,
                 Tail(seq))

RECURSIVE RebuildAllLoop(_, _)
RebuildAllLoop(lv, seq) ==
    IF seq = <<>> THEN lv
    ELSE LET a == Head(seq)
         IN  RebuildAllLoop(
                 IF RebuildAllAssetsStarts(lv, a)
                 THEN [ StartTask(lv, a) EXCEPT !.count = @ + 1 ]
                 ELSE lv,
                 Tail(seq))

RECURSIVE RecookSelectionLoop(_, _)
RecookSelectionLoop(lv, seq) ==
    IF seq = <<>> THEN lv
    ELSE LET a == Head(seq)
         IN  RecookSelectionLoop(
                 IF RecookSelectionStarts(lv, a)
                 THEN [ StartTask(lv, a) EXCEPT !.count = @ + 1 ]
                 ELSE lv,
                 Tail(seq))

RECURSIVE RebuildSelectionLoop(_, _)
RebuildSelectionLoop(lv, seq) ==
    IF seq = <<>> THEN lv
    ELSE LET a == Head(seq)
         IN  RebuildSelectionLoop(
                 IF RebuildSelectionStarts(lv, a)
                 THEN [ StartTask(lv, a) EXCEPT !.count = @ + 1 ]
                 ELSE lv,
                 Tail(seq))

RECURSIVE TickLoop(_, _)
TickLoop(lv, seq) ==
    IF seq = <<>> THEN lv
    ELSE LET a == Head(seq)
         IN  TickLoop(
                 IF PauseAssetCookingTicks(lv, a)
                 THEN StartHoudiniTicking(lv, a)
                 ELSE lv,
                 Tail(seq))

\* The level as a handler finds it.
Level ==
    [ status |-> status, cooking |-> cooking, calls |-> <<>>, count |-> 0 ]

\* A handler ends: the level as it leaves it, and the record of the command.
\* count is the number in its final notification, -1 if it shows none.
Finish(cmd, sel, lv, count) ==
    /\ status' = lv.status
    /\ cooking' = lv.cooking
    /\ last' = [ cmd |-> cmd, sel |-> sel,
                 valid |-> { a \in Actors : IsComponentValid(Level, a) },
                 cooking |-> { a \in Actors : IsInstantiatingOrCooking(Level, a) },
                 calls |-> lv.calls, count |-> count ]

BakeAllAssets ==
    /\ \E oks \in SUBSET { a \in Actors : BakeAllAssetsBakes(Level, a) } :
         LET lv == BakeAllLoop(Level, ObjectIterator(Level, 1), oks)
         IN  Finish("BakeAllAssets", {}, lv, lv.count)
    /\ UNCHANGED <<bEnableCookingGlobal, flag0, pauseEven>>
    /\ UNCHANGED moduleVars
    /\ UNCHANGED cleanVars
    /\ UNCHANGED toolVars

BakeSelection ==
    /\ \E sel \in SUBSET Actors :
       \E oks \in SUBSET { a \in sel : BakeSelectionBakes(Level, a) } :
         LET WorldSelection == GetWorldSelection(Level, sel, env)
         IN  IF Len(WorldSelection) <= 0
             THEN Finish("BakeSelection", sel, Level, -1)
             ELSE LET lv == BakeSelectionLoop(Level, WorldSelection, oks)
                  IN  Finish("BakeSelection", sel, lv, lv.count)
    /\ UNCHANGED <<bEnableCookingGlobal, flag0, pauseEven>>
    /\ UNCHANGED moduleVars
    /\ UNCHANGED cleanVars
    /\ UNCHANGED toolVars

RecookAllAssets ==
    /\ LET lv == RecookAllLoop(Level, ObjectIterator(Level, 1))
       IN  Finish("RecookAllAssets", {}, lv, lv.count)
    /\ UNCHANGED <<bEnableCookingGlobal, flag0, pauseEven>>
    /\ UNCHANGED moduleVars
    /\ UNCHANGED cleanVars
    /\ UNCHANGED toolVars

RebuildAllAssets ==
    /\ LET lv == RebuildAllLoop(Level, ObjectIterator(Level, 1))
       IN  Finish("RebuildAllAssets", {}, lv, lv.count)
    /\ UNCHANGED <<bEnableCookingGlobal, flag0, pauseEven>>
    /\ UNCHANGED moduleVars
    /\ UNCHANGED cleanVars
    /\ UNCHANGED toolVars

RecookSelection ==
    /\ \E sel \in SUBSET Actors :
         LET WorldSelection == GetWorldSelection(Level, sel, env)
         IN  IF Len(WorldSelection) <= 0
             THEN Finish("RecookSelection", sel, Level, -1)
             ELSE LET lv == RecookSelectionLoop(Level, WorldSelection)
                  IN  Finish("RecookSelection", sel, lv, lv.count)
    /\ UNCHANGED <<bEnableCookingGlobal, flag0, pauseEven>>
    /\ UNCHANGED moduleVars
    /\ UNCHANGED cleanVars
    /\ UNCHANGED toolVars

RebuildSelection ==
    /\ \E sel \in SUBSET Actors :
         LET WorldSelection == GetWorldSelection(Level, sel, env)
         IN  IF Len(WorldSelection) <= 0
             THEN Finish("RebuildSelection", sel, Level, -1)
             ELSE LET lv == RebuildSelectionLoop(Level, WorldSelection)
                  IN  Finish("RebuildSelection", sel, lv, lv.count)
    /\ UNCHANGED <<bEnableCookingGlobal, flag0, pauseEven>>
    /\ UNCHANGED moduleVars
    /\ UNCHANGED cleanVars
    /\ UNCHANGED toolVars

\* A pause command that would clear the flag instead of reverting it.
RevertedFlagCleared(flag) == FALSE

\* bool CurrentEnableCookingGlobal = !GetEnableCookingGlobal()
RevertedFlag(flag) == ~flag

PauseAssetCooking ==
    /\ Running
    /\ \E trigger \in TriggerPaths : Triggered(trigger, CanPauseAssetCooking)
    /\ \/ /\ \E flag \in GetEnableCookingGlobal :
               LET CurrentEnableCookingGlobal == RevertedFlag(flag)
               IN  /\ bEnableCookingGlobal' = CurrentEnableCookingGlobal
                   /\ IF ~CurrentEnableCookingGlobal
                      THEN Finish("PauseAssetCooking", {}, Level, -1)
                      ELSE Finish("PauseAssetCooking", {},
                                  TickLoop(Level, ObjectIterator(Level, 1)), -1)
          /\ pauseEven' = ~pauseEven
          /\ tool' = EngineReached("PauseAssetCooking", FALSE)
       \/ \* FHoudiniEngine::Get() without an engine may end the editor
          /\ ~bEngineInitialized
          /\ tool' = EngineReached("PauseAssetCooking", TRUE)
          /\ UNCHANGED <<status, cooking, bEnableCookingGlobal, pauseEven, last>>
    /\ UNCHANGED <<flag0, bEngineInitialized, bUtilsInitialized, undo>>
    /\ UNCHANGED moduleVars
    /\ UNCHANGED cleanVars

\* bool IsAssetCookingPaused(): the checked state of the menu entry.
IsAssetCookingPaused == ~bEnableCookingGlobal

\* The menu asks for the checked state of the pause entry: FIsActionChecked
\* is bound to IsAssetCookingPaused and does not go through CanExecute.
QueryAssetCookingPaused ==
    /\ Running
    /\ \E crashed \in (IF bEngineInitialized THEN {FALSE} ELSE BOOLEAN) :
         tool' = EngineReached("IsAssetCookingPaused", crashed)
    /\ UNCHANGED <<bEngineInitialized, bUtilsInitialized, undo>>
    /\ UNCHANGED levelVars
    /\ UNCHANGED moduleVars
    /\ UNCHANGED cleanVars

\* The engine completes the cook or the instantiation of a component.
CookFinished ==
    /\ \E a \in Actors :
         /\ cooking[a]
         /\ cooking' = [cooking EXCEPT ![a] = FALSE]
    /\ UNCHANGED <<status, bEnableCookingGlobal, flag0, pauseEven, last>>
    /\ UNCHANGED moduleVars
    /\ UNCHANGED cleanVars
    /\ UNCHANGED toolVars

(***************************************************************************)
(* Module lifecycle                                                        *)
(***************************************************************************)

\* The names the module registers under.
ConsoleCommandNames ==
    { "Houdini.Open", "Houdini.Save", "Houdini.BakeAll", "Houdini.Clean",
      "Houdini.Pause", "Houdini.CookAll", "Houdini.RebuildAll",
      "Houdini.Cook", "Houdini.Rebuild", "Houdini.Bake" }

UICommandNames ==
    { "OpenInHoudini", "SaveHIPFile", "ReportBug", "CleanUpTempFolder",
      "BakeAllAssets", "PauseAssetCooking", "CookSelec", "RebuildSelec",
      "BakeSelec" }

\* The host registries before the module is loaded.  Lists the host keeps
\* (arrays, extender lists) are counts; keyed registries are sets of keys.
HostInit ==
    [ assetTypeActions     |-> 0,
      assetBrokers         |-> 0,
      componentVisualizers |-> {},
      classLayouts         |-> {},
      actorFactories       |-> 0,
      slateStyles          |-> {},
      thumbnailRenderers   |-> {},
      menuExtenders        |-> 0,
      uiCommands           |-> {},
      levelEditorActions   |-> {},
      consoleCommands      |-> {},
      undoClients          |-> 0,
      editorModes          |-> {},
      placementCategories  |-> {} ]

\* FHoudiniEngineEditor::FHoudiniEngineEditor: every shared pointer is unset.
EdInit ==
    [ AssetTypeActions          |-> 0,
      HoudiniAssetBroker        |-> FALSE,
      SplineComponentVisualizer |-> FALSE,
      HandleComponentVisualizer |-> FALSE,
      StyleSet                  |-> FALSE,
      MainMenuExtender          |-> FALSE,
      HEngineCommands           |-> FALSE,
      HoudiniTools              |-> FALSE,
      Instance                  |-> FALSE,
      LastHoudiniAssetComponentUndoObject |-> nullptr ]

\* A module state w is [host |-> ..., ed |-> ...]; e is env.

RegisterAssetTypeActions(w) ==
    [ w EXCEPT !.host.assetTypeActions = @ + 1,
               !.ed.AssetTypeActions = @ + 1 ]

UnregisterAssetTypeActions(w, loaded) ==
    IF loaded.AssetTools
    THEN [ w EXCEPT !.host.assetTypeActions = @ - w.ed.AssetTypeActions,
                    !.ed.AssetTypeActions = 0 ]
    ELSE w

RegisterAssetBrokers(w) ==
    [ w EXCEPT !.host.assetBrokers = @ + 1,
               !.ed.HoudiniAssetBroker = TRUE ]

RegisterComponentVisualizers(w, e) ==
    IF e.GUnrealEd
    THEN LET w1 == IF ~w.ed.SplineComponentVisualizer
                   THEN [ w EXCEPT !.ed.SplineComponentVisualizer = TRUE,
                                   !.host.componentVisualizers =
                                       @ \cup {"HoudiniSplineComponent"} ]
                   ELSE w
         IN  IF ~w1.ed.HandleComponentVisualizer
             THEN [ w1 EXCEPT !.ed.HandleComponentVisualizer = TRUE,
                              !.host.componentVisualizers =
                                  @ \cup {"HoudiniHandleComponent"} ]
             ELSE w1
    ELSE w

UnregisterComponentVisualizers(w, e) ==
    IF e.GUnrealEd
    THEN LET w1 == IF w.ed.SplineComponentVisualizer
                   THEN [ w EXCEPT !.host.componentVisualizers =
                                       @ \ {"HoudiniSplineComponent"} ]
                   ELSE w
         IN  IF w1.ed.HandleComponentVisualizer
             THEN [ w1 EXCEPT !.host.componentVisualizers =
                                  @ \ {"HoudiniHandleComponent"} ]
             ELSE w1
    ELSE w

RegisterDetails(w) ==
    [ w EXCEPT !.host.classLayouts =
                   @ \cup {"HoudiniAssetComponent", "HoudiniRuntimeSettings"} ]

UnregisterDetails(w, loaded) ==
    IF loaded.PropertyEditor
    THEN [ w EXCEPT !.host.classLayouts =
                        @ \ {"HoudiniAssetComponent", "HoudiniRuntimeSettings"} ]
    ELSE w

\* The factory is created but never added to GEditor->ActorFactories.
RegisterActorFactoriesNotAdded(w, e) == w

RegisterActorFactories(w, e) ==
    IF e.GEditor
    THEN [ w EXCEPT !.host.actorFactories = @ + 1 ]
    ELSE w

RegisterStyleSet(w) ==
    IF ~w.ed.StyleSet
    THEN [ w EXCEPT !.ed.StyleSet = TRUE,
                    !.host.slateStyles = @ \cup {"HoudiniEngineStyle"} ]
    ELSE w

RegisterThumbnails(w) ==
    [ w EXCEPT !.host.thumbnailRenderers = @ \cup {"HoudiniAsset"} ]

UnregisterThumbnails(w, loaded) ==
    IF loaded.UObjectInitialized
    THEN [ w EXCEPT !.host.thumbnailRenderers = @ \ {"HoudiniAsset"} ]
    ELSE w

BindMenuCommands(w) ==
    [ w EXCEPT !.ed.HEngineCommands = TRUE,
               !.host.uiCommands = @ \cup UICommandNames,
               !.host.levelEditorActions = @ \cup UICommandNames ]

ExtendMenu(w, e) ==
    IF ~e.IsRunningCommandlet
    THEN LET w1 == BindMenuCommands(w)
         IN  [ w1 EXCEPT !.ed.MainMenuExtender = TRUE,
                         !.host.menuExtenders = @ + 1 ]
    ELSE w

RegisterConsoleCommands(w) ==
    [ w EXCEPT !.host.consoleCommands = @ \cup ConsoleCommandNames ]

RegisterForUndo(w, e) ==
    IF e.GUnrealEd
    THEN [ w EXCEPT !.host.undoClients = @ + 1 ]
    ELSE w

UnregisterForUndo(w, e) ==
    IF e.GUnrealEd
    THEN [ w EXCEPT !.host.undoClients = IF @ > 0 THEN @ - 1 ELSE 0 ]
    ELSE w

RegisterModes(w, e) ==
    IF e.HOUDINI_MODE
    THEN [ w EXCEPT !.host.editorModes = @ \cup {"EM_HoudiniShelfEdModeId"} ]
    ELSE w

UnregisterModes(w, e) ==
    IF e.HOUDINI_MODE
    THEN [ w EXCEPT !.host.editorModes = @ \ {"EM_HoudiniShelfEdModeId"} ]
    ELSE w

RegisterPlacementModeExtensions(w, e) ==
    IF e.bHidePlacementModeHoudiniTools
    THEN w
    ELSE [ w EXCEPT !.ed.HoudiniTools = TRUE,
                    !.host.placementCategories = @ \cup {"HoudiniEngine"} ]

UnregisterPlacementModeExtensions(w, loaded) ==
    IF loaded.PlacementMode
    THEN [ w EXCEPT !.host.placementCategories = @ \ {"HoudiniEngine"} ]
    ELSE w

\* StartupModule, in the order of its calls.
StartupModuleResult(w, e) ==
    LET w1  == RegisterAssetTypeActions(w)
        w2  == RegisterAssetBrokers(w1)
        w3  == RegisterComponentVisualizers(w2, e)
        w4  == RegisterDetails(w3)
        w5  == RegisterActorFactories(w4, e)
        w6  == RegisterStyleSet(w5)
        w7  == RegisterThumbnails(w6)
        w8  == ExtendMenu(w7, e)
        w9  == RegisterConsoleCommands(w8)
        w10 == RegisterForUndo(w9, e)
        w11 == RegisterModes(w10, e)
        w12 == RegisterPlacementModeExtensions(w11, e)
    IN  [ w12 EXCEPT !.ed.Instance = TRUE ]

\* ShutdownModule, in the order of its calls.
ShutdownModuleResult(w, e, loaded) ==
    LET w1 == UnregisterAssetTypeActions(w, loaded)
        w2 == UnregisterDetails(w1, loaded)
        w3 == UnregisterThumbnails(w2, loaded)
        w4 == UnregisterComponentVisualizers(w3, e)
        w5 == UnregisterForUndo(w4, e)
        w6 == UnregisterModes(w5, e)
    IN  UnregisterPlacementModeExtensions(w6, loaded)

\* What the host may have torn down by the time it shuts the module down.
LoadedStates ==
    [ AssetTools : BOOLEAN, PropertyEditor : BOOLEAN,
      UObjectInitialized : BOOLEAN, PlacementMode : BOOLEAN ]

AllLoaded ==
    [ AssetTools |-> TRUE, PropertyEditor |-> TRUE,
      UObjectInitialized |-> TRUE, PlacementMode |-> TRUE ]

EnvStates ==
    [ GUnrealEd : BOOLEAN, GEditor : BOOLEAN, IsRunningCommandlet : BOOLEAN,
      bHidePlacementModeHoudiniTools : BOOLEAN, HOUDINI_MODE : BOOLEAN ]

\* An interactive editor session that shows the placement tools.
InteractiveEditor(e) ==
    /\ e.GUnrealEd
    /\ e.GEditor
    /\ ~e.IsRunningCommandlet
    /\ ~e.bHidePlacementModeHoudiniTools

StartupModule ==
    /\ phase = "constructed"
    /\ LET w == StartupModuleResult([host |-> host, ed |-> ed], env)
       IN  /\ host' = w.host
           /\ ed' = w.ed
    /\ phase' = "started"
    /\ UNCHANGED <<env, down>>
    /\ UNCHANGED cleanVars
    /\ UNCHANGED levelVars
    /\ UNCHANGED toolVars

ShutdownModule ==
    /\ phase = "started"
    /\ \E loaded \in LoadedStates :
         /\ LET w == ShutdownModuleResult([host |-> host, ed |-> ed], env, loaded)
            IN  /\ host' = w.host
                /\ ed' = w.ed
         /\ down' = loaded
    /\ phase' = "shutdown"
    /\ UNCHANGED env
    /\ UNCHANGED cleanVars
    /\ UNCHANGED levelVars
    /\ UNCHANGED toolVars

\* The module before StartupModule, in some host.
ModuleConstructed ==
    /\ host = HostInit
    /\ ed = EdInit
    /\ phase = "constructed"
    /\ down = AllLoaded

(***************************************************************************)
(* The undo client                                                         *)
(***************************************************************************)

\* "HoudiniEngineEditor" and "HoudiniEngineRuntime", as code units.
HOUDINI_MODULE_EDITOR ==
    << 72, 111, 117, 100, 105, 110, 105, 69, 110, 103, 105, 110, 101,
       69, 100, 105, 116, 111, 114 >>

HOUDINI_MODULE_RUNTIME ==
    << 72, 111, 117, 100, 105, 110, 105, 69, 110, 103, 105, 110, 101,
       82, 117, 110, 116, 105, 109, 101 >>

\* The contexts tried: the two names, "houdiniengineeditor",
\* "HOUDINIENGINERUNTIME", "HoudiniEngine" and the empty string.
Contexts ==
    { HOUDINI_MODULE_EDITOR,
      HOUDINI_MODULE_RUNTIME,
      << 104, 111, 117, 100, 105, 110, 105, 101, 110, 103, 105, 110, 101,
         101, 100, 105, 116, 111, 114 >>,
      << 72, 79, 85, 68, 73, 78, 73, 69, 78, 71, 73, 78, 69,
         82, 85, 78, 84, 73, 77, 69 >>,
      << 72, 111, 117, 100, 105, 110, 105, 69, 110, 103, 105, 110, 101 >>,
      <<>> }

\* FChar::ToLower on a code unit: 'A'..'Z' map to 'a'..'z'.
ToLower(c) == IF c >= 65 /\ c <= 90 THEN c + 32 ELSE c

\* FString::operator==: FCString::Stricmp( a, b ) == 0, which ignores case.
FStringEquals(a, b) ==
    /\ Len(a) = Len(b)
    /\ \A i \in 1 .. Len(a) : ToLower(a[i]) = ToLower(b[i])

\* A client that answers for the editor module's context only.
ContextMatchesEditorOnly(InContext) ==
    FStringEquals(InContext, HOUDINI_MODULE_EDITOR)

\* InContext == TEXT( HOUDINI_MODULE_EDITOR ) ||
\* InContext == TEXT( HOUDINI_MODULE_RUNTIME )
ContextMatches(InContext) ==
    \/ FStringEquals(InContext, HOUDINI_MODULE_EDITOR)
    \/ FStringEquals(InContext, HOUDINI_MODULE_RUNTIME)

\* Cast< UHoudiniAssetComponent >( PrimaryObject )
CastToHoudiniAssetComponent(object) ==
    IF object.class = "UHoudiniAssetComponent" THEN object ELSE nullptr

\* The undo system calls the clients registered with RegisterForUndo.
IsUndoClient == phase = "started" /\ host.undoClients > 0

MatchesContext ==
    /\ Running
    /\ IsUndoClient
    /\ \E InContext \in Contexts :
       \E PrimaryObject \in UndoObjects :
         LET matches == ContextMatches(InContext)
         IN  /\ ed' = [ ed EXCEPT !.LastHoudiniAssetComponentUndoObject =
                          IF matches
                          THEN CastToHoudiniAssetComponent(PrimaryObject)
                          ELSE nullptr ]
             /\ undo' = [ NoUndo EXCEPT !.call = "MatchesContext",
                                        !.InContext = InContext,
                                        !.PrimaryObject = PrimaryObject,
                                        !.result = matches ]
    /\ UNCHANGED <<env, host, phase, down>>
    /\ UNCHANGED <<bEngineInitialized, bUtilsInitialized, tool>>
    /\ UNCHANGED levelVars
    /\ UNCHANGED cleanVars

\* The body PostUndo and PostRedo share: the recorded component, if any,
\* has its editor properties updated and the record is cleared.
PostUndoOrRedo(call, bSuccess) ==
    LET Last == ed.LastHoudiniAssetComponentUndoObject
    IN  /\ IF Last # nullptr /\ bSuccess
           THEN /\ ed' = [ ed EXCEPT !.LastHoudiniAssetComponentUndoObject = nullptr ]
                /\ undo' = [ NoUndo EXCEPT !.call = call, !.bSuccess = bSuccess,
                                           !.updated = Last ]
           ELSE /\ ed' = ed
                /\ undo' = [ NoUndo EXCEPT !.call = call, !.bSuccess = bSuccess ]
        /\ UNCHANGED <<env, host, phase, down>>
        /\ UNCHANGED <<bEngineInitialized, bUtilsInitialized, tool>>
        /\ UNCHANGED levelVars
        /\ UNCHANGED cleanVars

PostUndo ==
    /\ Running
    /\ IsUndoClient
    /\ \E bSuccess \in BOOLEAN : PostUndoOrRedo("PostUndo", bSuccess)

PostRedo ==
    /\ Running
    /\ IsUndoClient
    /\ \E bSuccess \in BOOLEAN : PostUndoOrRedo("PostRedo", bSuccess)

\* The module after StartupModule in an interactive editor.
ModuleStarted ==
    /\ env \in { e \in EnvStates : InteractiveEditor(e) /\ ~e.HOUDINI_MODE }
    /\ LET w == StartupModuleResult([host |-> HostInit, ed |-> EdInit], env)
       IN  /\ host = w.host
           /\ ed = w.ed
    /\ phase = "started"
    /\ down = AllLoaded

InitModule ==
    /\ env \in EnvStates
    /\ ModuleConstructed
    /\ CleanIdle
    /\ LevelIdle
    /\ ToolsIdle

NextModule ==
    \/ StartupModule
    \/ ShutdownModule

SpecModule == InitModule /\ [][NextModule]_vars

InitClean ==
    /\ ModuleStarted
    /\ LevelIdle
    /\ ToolsIdle
    /\ pkgOf \in PackageMaps
    /\ \E n \in 0 .. NumAssets :
         /\ temp0 = 1 .. n
         /\ temp = 1 .. n
         /\ \A a \in Assets : a > n => pkgOf[a] = a
         /\ refs \in EdgeSets(CandidateEdges(1 .. n, pkgOf), MaxRefs)
    /\ cleanPc = "idle"
    /\ DeletedCount = 0
    /\ bDidDeleteAsset = FALSE
    /\ pending = {}
    /\ AssetDataToDelete = {}
    /\ passes = 0
    /\ lastPass = NoPass
    /\ allSucceeded = TRUE
    /\ reported = -1

NextClean ==
    \/ CleanUpTempFolder
    \/ CleanUpWhile
    \/ CleanUpFor
    \/ CleanUpDelete
    \/ CleanUpNotify

SpecClean == InitClean /\ [][NextClean]_vars


Init ==
    /\ ModuleStarted
    /\ CleanIdle
    /\ ToolsIdle
    /\ status \in [Actors -> StatusValues]
    /\ cooking = [a \in Actors |-> FALSE]
    /\ bEnableCookingGlobal \in BOOLEAN
    /\ flag0 = bEnableCookingGlobal
    /\ pauseEven = TRUE
    /\ last = NoCommand

Next ==
    \/ BakeAllAssets
    \/ BakeSelection
    \/ RecookAllAssets
    \/ RebuildAllAssets
    \/ RecookSelection
    \/ RebuildSelection
    \/ PauseAssetCooking
    \/ CookFinished

Spec == Init /\ [][Next]_vars

\* The handlers that reach for the engine, in an editor whose engine may
\* not be initialized.
InitTools ==
    /\ ModuleStarted
    /\ CleanIdle
    /\ LevelIdle
    /\ bEngineInitialized \in BOOLEAN
    /\ bUtilsInitialized \in { b \in BOOLEAN : b => bEngineInitialized }
    /\ tool = NoTool
    /\ undo = NoUndo

NextTools ==
    \/ MatchesContext
    \/ PostUndo
    \/ PostRedo
    \/ SaveHIPFile
    \/ OpenInHoudini
    \/ PauseAssetCooking
    \/ QueryAssetCookingPaused

SpecTools == InitTools /\ [][NextTools]_vars

(***************************************************************************)
(* Properties                                                              *)
(***************************************************************************)

\* C1: once StartupModule has run in an interactive editor (GUnrealEd and
\* GEditor present, not a commandlet, placement tools not hidden), the host
\* holds exactly one registration of each kind the module makes: the asset
\* type actions, the asset broker, the two component visualizers, the two
\* detail customizations, the actor factory, the style set, the thumbnail
\* renderer, the menu extender, the console commands, the undo client and
\* the placement category.
C1_StartupRegistersAll ==
    (phase = "started" /\ InteractiveEditor(env)) =>
        /\ host.assetTypeActions = 1
        /\ host.assetBrokers = 1
        /\ host.componentVisualizers =
               {"HoudiniSplineComponent", "HoudiniHandleComponent"}
        /\ host.classLayouts =
               {"HoudiniAssetComponent", "HoudiniRuntimeSettings"}
        /\ host.actorFactories = 1
        /\ host.slateStyles = {"HoudiniEngineStyle"}
        /\ host.thumbnailRenderers = {"HoudiniAsset"}
        /\ host.menuExtenders = 1
        /\ host.consoleCommands = ConsoleCommandNames
        /\ host.undoClients = 1
        /\ host.placementCategories = {"HoudiniEngine"}

C1_Witness ==
    /\ phase = "started"
    /\ InteractiveEditor(env)
    /\ ed.Instance
    /\ host.actorFactories = 1

\* C2: after StartupModule and then ShutdownModule, with every host module
\* still loaded, the host's registries are what they were before
\* StartupModule: no registration of the module remains.
C2_ShutdownRestoresHost ==
    (phase = "shutdown" /\ InteractiveEditor(env) /\ down = AllLoaded) =>
        host = HostInit

\* The temp assets that something outside the temporary cook folder reaches
\* through references.
RECURSIVE ReachedFrom(_)
ReachedFrom(S) ==
    LET more == { e.to : e \in { r \in refs : r.from \in S } } \cap temp
    IN  IF more \subseteq S THEN S ELSE ReachedFrom(S \cup more)

UsedAssets ==
    ReachedFrom({ e.to : e \in { r \in refs : r.from = ExtObject } } \cap temp)

\* Every temp asset has a package of its own.
OneAssetPerPackage == \A a \in Assets : pkgOf[a] = a

\* C3: when CleanUpTempFolder returns and every DeleteAssets call deleted all
\* it was given, no unused asset is left in the temporary cook folder: every
\* remaining asset is reached through references from outside the folder
\* (stated for folders whose packages hold one asset each).
C3_NoUnusedAssetRemains ==
    (cleanPc = "done" /\ allSucceeded /\ OneAssetPerPackage) =>
        temp \subseteq UsedAssets

\* C4: the list a pass hands to DeleteAssets / ForceDeleteObjects never holds
\* an asset that something outside the list still refers to: every
\* referencer of a listed asset is a listed asset or a subobject of one, and
\* so no asset referenced from outside the temporary cook folder is listed.
C4_ListedOnlyIfReferencersListed ==
    (cleanPc = "for" /\ pending = {}) =>
        \A t \in AssetDataToDelete :
            \A e \in ExternalReferences(t) : e.from \in AssetDataToDelete

\* C5: CleanUpTempFolder terminates: every pass after the first was preceded
\* by a pass that deleted an asset, the loop condition holds after a pass
\* exactly when that pass deleted something, and so at most one pass more
\* than the initial number of temp assets is ever started.
C5_PassesBounded ==
    /\ passes <= Cardinality(temp0) + 1
    /\ passes >= 1 => Cardinality(temp0) - Cardinality(temp) >= passes - 1
    /\ (cleanPc = "while" /\ passes >= 1) =>
           (bDidDeleteAsset <=> lastPass.CurrentDeleted > 0)
    /\ cleanPc \in {"notify", "done"} => Cardinality(temp) <= Cardinality(temp0)

C5_Witness ==
    /\ cleanPc = "done"
    /\ Cardinality(temp0) = NumAssets
    /\ passes = NumAssets + 1
    /\ temp = {}


\* The components a command called its operation on, and how often.
CalledOn == { last.calls[i].comp : i \in 1 .. Len(last.calls) }

TimesCalledOn(a) ==
    Cardinality({ i \in 1 .. Len(last.calls) : last.calls[i].comp = a })

\* The components whose bake succeeded: they were valid when the command was
\* issued and their actor has been replaced since.
BakedBy == { a \in last.valid : status[a] = "other" }

C7_BakesOnlyValidIdle ==
    last.cmd \in {"BakeAllAssets", "BakeSelection"} =>
        \A i \in 1 .. Len(last.calls) :
            last.calls[i].valid /\ ~last.calls[i].cooking

C7_Witness ==
    /\ last.cmd = "BakeSelection"
    /\ last.sel \cap last.valid \cap last.cooking # {}
    /\ CalledOn # {}
    /\ CalledOn \cap last.cooking = {}

\* C8 (as stated): once PauseAssetCooking has paused cooking and until it
\* resumes it, no recook and no rebuild command starts a cook or rebuild
\* task on any component.
C8_NoTaskStartedWhilePaused ==
    ( /\ flag0
      /\ last.cmd \in {"RecookAllAssets", "RecookSelection",
                       "RebuildAllAssets", "RebuildSelection"}
      /\ IsAssetCookingPaused )
        => last.calls = <<>>

\* C9: the global cooking flag has its initial value exactly when
\* PauseAssetCooking has run an even number of times, and
\* IsAssetCookingPaused() is the negation of the flag.
C9_FlagFollowsPauseParity ==
    /\ (bEnableCookingGlobal = flag0) <=> pauseEven
    /\ IsAssetCookingPaused <=> (bEnableCookingGlobal = FALSE)

C9_Witness ==
    /\ ~pauseEven
    /\ bEnableCookingGlobal # flag0
    /\ last.cmd = "RecookAllAssets"
    /\ last.calls # <<>>

\* C10: RecookAllAssets and RebuildAllAssets start their task exactly once
\* on every valid component and on no other, and the count they report is
\* the number of components the task was started on.
C10_AllStartsOncePerValid ==
    last.cmd \in {"RecookAllAssets", "RebuildAllAssets"} =>
        /\ CalledOn = last.valid
        /\ \A a \in CalledOn : TimesCalledOn(a) = 1
        /\ \A i \in 1 .. Len(last.calls) : last.calls[i].valid
        /\ last.count = Cardinality(CalledOn)

C10_Witness ==
    /\ last.cmd = "RebuildAllAssets"
    /\ last.valid # {}
    /\ \E a \in Actors : status[a] = "invalid"
    /\ last.count = Cardinality(last.valid)

SelectionCommands == {"RecookSelection", "RebuildSelection", "BakeSelection"}

\* C11: a selection command calls its operation only on components of
\* actors that are selected, are Houdini asset actors and have a valid
\* component; the step of the command leaves every unselected actor and
\* every selected actor that is no Houdini asset actor as it was (no cook
\* started on it, not replaced).
C11_SelectionCommandsTouchSelectionOnly ==
    [][ last'.cmd \in SelectionCommands =>
          /\ \A i \in 1 .. Len(last'.calls) :
                /\ last'.calls[i].comp \in last'.sel
                /\ last'.calls[i].comp \in last'.valid
                /\ last'.calls[i].valid
          /\ \A a \in Actors :
                (a \notin last'.sel \/ status[a] = "other") =>
                    /\ status'[a] = status[a]
                    /\ cooking'[a] => cooking[a] ]_vars

C11_Witness ==
    /\ last.cmd = "RecookSelection"
    /\ CalledOn # {}
    /\ \E a \in Actors \ last.sel : status[a] = "valid" /\ ~cooking[a]

\* C16: when PauseAssetCooking unpauses it calls StartHoudiniTicking exactly
\* once on every component that passes IsValidLowLevel and on no other; when
\* it pauses it calls StartHoudiniTicking on no component.
C16_TicksEveryComponentOnUnpause ==
    last.cmd = "PauseAssetCooking" =>
        IF bEnableCookingGlobal
        THEN /\ CalledOn = { a \in Actors : status[a] \in {"invalid", "valid"} }
             /\ \A a \in CalledOn : TimesCalledOn(a) = 1
        ELSE last.calls = <<>>

C16_Witness ==
    /\ last.cmd = "PauseAssetCooking"
    /\ bEnableCookingGlobal
    /\ CalledOn # {}
    /\ \E a \in Actors : status[a] = "stale"

\* The assets reached from S along the references R.
RECURSIVE ReachedAlong(_, _)
ReachedAlong(R, S) ==
    LET more == { e.to : e \in { r \in R : r.from \in S } }
    IN  IF more \subseteq S THEN S ELSE ReachedAlong(R, S \cup more)

\* The temp assets that nothing outside the folder reaches, directly or
\* through other temp assets.
UnusedAssets == temp \ UsedAssets

\* No asset of S refers to itself through assets of S.
Acyclic(R, S) ==
    LET inS == { e \in R : e.from \in S /\ e.to \in S }
    IN  \A a \in S :
            a \notin ReachedAlong(inS, { e.to : e \in { r \in inS : r.from = a } })

\* No unused asset shares its package with an asset that is in use.
UnusedPackagesApart ==
    \A d \in UnusedAssets : \A a \in temp : pkgOf[a] = pkgOf[d] => a \in UnusedAssets

\* C14: the temp assets that only temp assets refer to, in chains without a
\* cycle, are all deleted when CleanUpTempFolder returns, in whatever order
\* the asset list enumerates them and deletions succeeding.  Stated for the
\* invocations that end without having deleted anything, where the folder
\* and its references are those the command found, and for the chains none
\* of whose assets shares its package with an asset in use: no such chain
\* is left.
C14_UnusedChainsDeleted ==
    ( /\ cleanPc = "done"
      /\ allSucceeded
      /\ temp = temp0
      /\ Acyclic(refs, UnusedAssets)
      /\ UnusedPackagesApart ) =>
        UnusedAssets = {}

\* C15: a pass attempts ForceDeleteObjects only when DeleteAssets, given a
\* non-empty selection, deleted nothing; the running count, and the number
\* in the final notification, is the sum over the passes of the positive
\* count of the deletion last run, which is the number of assets gone from
\* the folder.
C15_ForceOnlyAfterFailureAndCountIsSum ==
    /\ lastPass.forceTried =>
          lastPass.selected # {} /\ lastPass.normal = {}
    /\ cleanPc \in {"while", "notify", "done"} =>
          DeletedCount = Cardinality(temp0 \ temp)
    /\ cleanPc = "done" => reported = Cardinality(temp0 \ temp)

C15_Witness ==
    /\ cleanPc = "while"
    /\ lastPass.forceTried
    /\ lastPass.forced # {}
    /\ DeletedCount > Cardinality(lastPass.forced)

\* C12 (as stated): OpenInHoudini, SaveHIPFile, PauseAssetCooking and
\* IsAssetCookingPaused reach for the FHoudiniEngine singleton or its
\* session only when FHoudiniEngine::IsInitialized() holds, whatever path
\* triggered them.
C12_EngineReachedOnlyWhenInitialized ==
    ( /\ tool.cmd \in {"OpenInHoudini", "SaveHIPFile", "PauseAssetCooking",
                       "IsAssetCookingPaused"}
      /\ tool.engine )
        => tool.initialized

\* Where a handler made the call op.
CallsOf(op) == { i \in 1 .. Len(tool.events) : tool.events[i].op = op }

\* C13: OpenInHoudini launches Houdini at most once, only after it saved the
\* scene and only if the temporary file exists after the save, on the file
\* it saved; with the engine not initialized, or without the file, it
\* launches nothing and shows no notification.
C13_OpensOnlyAfterSavedFileExists ==
    tool.cmd = "OpenInHoudini" =>
        /\ Cardinality(CallsOf("CreateProc")) <= 1
        /\ \A i \in CallsOf("CreateProc") :
              /\ tool.initialized
              /\ tool.input.exists
              /\ \E j \in CallsOf("FHoudiniApi::SaveHIPFile") :
                    /\ j < i
                    /\ tool.events[j].arg = Utf8(tool.events[i].arg)
        /\ (~tool.initialized \/ ~tool.input.exists) =>
              /\ CallsOf("CreateProc") = {}
              /\ CallsOf("Notification: Opening scene in Houdini...") = {}

C13_Witness ==
    /\ tool.cmd = "OpenInHoudini"
    /\ tool.initialized
    /\ tool.input.exists
    /\ Cardinality(CallsOf("CreateProc")) = 1
    /\ tool.input.temp = <<20013>>

\* C17 (as stated): SaveHIPFile calls the session's SaveHIPFile at most
\* once, only if the desktop platform is available, the engine reports
\* initialized, the dialog succeeded and a file name was chosen, and then
\* with the first chosen path; a cancelled dialog or one without a file name
\* gives no save and no notification.
C17_SavesFirstChosenPathOnConfirm ==
    tool.cmd = "SaveHIPFile" =>
        /\ Cardinality(CallsOf("FHoudiniApi::SaveHIPFile")) <= 1
        /\ \A i \in CallsOf("FHoudiniApi::SaveHIPFile") :
              /\ tool.input.platform
              /\ bUtilsInitialized
              /\ tool.input.bSaved
              /\ Len(tool.input.chosen) > 0
              /\ tool.events[i].arg = Utf8(tool.input.chosen[1])
        /\ (~tool.input.bSaved \/ Len(tool.input.chosen) = 0) =>
              /\ CallsOf("FHoudiniApi::SaveHIPFile") = {}
              /\ CallsOf("Notification: Saving internal Houdini scene...") = {}

\* C18 (as stated): MatchesContext returns true exactly when the context
\* string equals the editor module's name or the runtime module's name; on
\* a match it records the primary object as the last undo component (null
\* if that is no Houdini asset component), on a mismatch it clears the
\* record.
C18_MatchesExactlyTheModuleNames ==
    undo.call = "MatchesContext" =>
        /\ undo.result <=> undo.InContext \in
                               {HOUDINI_MODULE_EDITOR, HOUDINI_MODULE_RUNTIME}
        /\ ed.LastHoudiniAssetComponentUndoObject =
              ( IF undo.result /\ undo.PrimaryObject.class = "UHoudiniAssetComponent"
                THEN undo.PrimaryObject
                ELSE nullptr )

\* The context is one of the two module names in some spelling of case.
NamesModuleIgnoringCase(InContext) ==
    \E name \in {HOUDINI_MODULE_EDITOR, HOUDINI_MODULE_RUNTIME} :
        /\ Len(InContext) = Len(name)
        /\ \A i \in 1 .. Len(name) :
              \/ InContext[i] = name[i]
              \/ name[i] \in 65 .. 90 /\ InContext[i] = name[i] + 32
              \/ name[i] \in 97 .. 122 /\ InContext[i] = name[i] - 32

\* C18 (amended): MatchesContext returns true exactly when the context
\* string equals one of the two module names with the case of letters
\* ignored; the record is as stated.
C18_MatchesTheModuleNamesIgnoringCase ==
    undo.call = "MatchesContext" =>
        /\ undo.result <=> NamesModuleIgnoringCase(undo.InContext)
        /\ ed.LastHoudiniAssetComponentUndoObject =
              ( IF undo.result /\ undo.PrimaryObject.class = "UHoudiniAssetComponent"
                THEN undo.PrimaryObject
                ELSE nullptr )

C18_Witness ==
    /\ undo.call = "MatchesContext"
    /\ undo.result
    /\ undo.InContext \notin {HOUDINI_MODULE_EDITOR, HOUDINI_MODULE_RUNTIME}
    /\ undo.PrimaryObject.class = "UHoudiniAssetComponent"
    /\ ed.LastHoudiniAssetComponentUndoObject = undo.PrimaryObject

===============================================================================
